---- MODULE Spec2Model ----
(***************************************************************************)
(* State-machine model of src/src/EpidemicSimulation.jsx: the simulation   *)
(* held in simulationRef (people, time, infections), the React state that  *)
(* configures it, the values captured by the running animation callback,   *)
(* and the handlers/effects that change them.                              *)
(*                                                                         *)
(* Numbers.  Clock values and delays are integers (milliseconds).          *)
(* Positions and velocities are fixed-point, Unit steps per pixel.         *)
(* personalRecovery is an IEEE-754 binary64 value, kept as its 53-bit      *)
(* significand (most significant bit first) and the exponent of its last   *)
(* bit; its multiplication and division round to nearest, ties to even.    *)
(* Math.random() is a draw from a small set; probabilities are compared    *)
(* exactly, in thousandths.                                                *)
(***************************************************************************)
EXTENDS Integers, Sequences, FiniteSets, TLC

(***************************************************************************)
(* Bounds of the exploration.                                              *)
(***************************************************************************)
\* fixed-point steps per pixel
Unit == 4
\* no tick starts at or after this clock value
MaxTime == 1584
\* the sliders and the mask checkbox are moved while the clock is below
\* EarlyUntil or at least LateFrom; ticks with mobilityRate > 0 are explored
\* from LateFrom on
EarlyUntil == 96
LateFrom == 1536
\* the long runs end at this clock value, past the end of the immunity of
\* a person resolved under the shortest recovery time
LongTime == 16608
\* the healthcare capacity (30 active cases in the code, for populations of
\* 50 to 1000), scaled to the populations explored
healthcareCapacity == 1

(***************************************************************************)
(* Constants of the program.                                               *)
(***************************************************************************)
canvasWidth == 700
canvasHeight == 500
margin == 5
contactDistance == 10
fallbackRecoveryTime == 5000
immunityDuration == 15000
frameMillis == 16
\* JavaScript null in a field that otherwise holds a number >= 0
Null == -1

(***************************************************************************)
(* binary64 arithmetic.                                                    *)
(***************************************************************************)
Precision == 53
\* digits handled at a time by the multiplication and the division
LimbBits == 14

Zeros(n) == [i \in 1..n |-> 0]

\* the last width binary digits of n >= 0, most significant first
BitsOf(n, width) == [i \in 1..width |-> (n \div 2^(width - i)) % 2]

RECURSIVE BitsInt(_)
\* the integer with the binary digits b (at most 30 of them)
BitsInt(b) ==
  IF Len(b) = 0 THEN 0
  ELSE CHOOSE v \in {2 * BitsInt(front) + b[Len(b)] :
                       front \in {SubSeq(b, 1, Len(b) - 1)}} : TRUE

\* drop leading zero digits
Strip(b) ==
  IF \A i \in 1..Len(b) : b[i] = 0 THEN << >>
  ELSE LET first == CHOOSE i \in 1..Len(b) :
                      b[i] = 1 /\ \A j \in 1..(i - 1) : b[j] = 0
       IN SubSeq(b, first, Len(b))

\* b + 1 on digit sequences (one digit longer when b is all ones)
Increment(b) ==
  IF \A i \in 1..Len(b) : b[i] = 1 THEN <<1>> \o Zeros(Len(b))
  ELSE LET last == CHOOSE i \in 1..Len(b) :
                     b[i] = 0 /\ \A j \in (i + 1)..Len(b) : b[j] = 1
       IN [i \in 1..Len(b) |-> IF i < last THEN b[i]
                               ELSE IF i = last THEN 1 ELSE 0]

FZero == [m |-> << >>, e |-> 0]

\* nearest binary64 to (b as integer) * 2^e, plus a non-zero tail below
\* the last digit when sticky; ties to even
RoundBits(b0, e, sticky) ==
  LET b == Strip(b0) IN
  IF Len(b) = 0 THEN FZero
  ELSE IF Len(b) <= Precision
       THEN [m |-> b \o Zeros(Precision - Len(b)), e |-> e - (Precision - Len(b))]
  ELSE LET keep  == SubSeq(b, 1, Precision)
           guard == b[Precision + 1]
           tail  == sticky \/ (\E i \in (Precision + 2)..Len(b) : b[i] = 1)
           up    == guard = 1 /\ (tail \/ keep[Precision] = 1)
           r     == IF up THEN Increment(keep) ELSE keep
           e1    == e + (Len(b) - Precision)
       IN IF Len(r) > Precision
          THEN [m |-> SubSeq(r, 1, Precision), e |-> e1 + 1]
          ELSE [m |-> r, e |-> e1]

\* the binary64 equal to the integer n, 0 <= n < 2^30
FromInt(n) == RoundBits(BitsOf(n, 30), 0, FALSE)

\* b as limbs of LimbBits digits, most significant first, zero-padded in front
Limbs(b) ==
  LET count == (Len(b) + LimbBits - 1) \div LimbBits
      pad   == Zeros(count * LimbBits - Len(b)) \o b
  IN [i \in 1..count |->
        BitsInt(SubSeq(pad, (i - 1) * LimbBits + 1, i * LimbBits))]

RECURSIVE MulLimbs(_, _, _)
\* digits of k * (l as integer), 0 <= k < 2^15, from the last limb
MulLimbs(k, l, carry) ==
  IF Len(l) = 0 THEN BitsOf(carry, LimbBits + 2)
  ELSE LET t == l[Len(l)] * k + carry
       IN MulLimbs(k, SubSeq(l, 1, Len(l) - 1), t \div 2^LimbBits)
            \o BitsOf(t % 2^LimbBits, LimbBits)

\* JavaScript  k * f  for an integer 0 <= k < 2^15 and a binary64 f
FMulInt(k, f) ==
  IF Len(f.m) = 0 THEN FZero
  ELSE RoundBits(MulLimbs(k, Limbs(f.m), 0), f.e, FALSE)

RECURSIVE DivLimbs(_, _, _)
\* long division of (l as integer) by d, 0 < d < 2^15:
\* <<quotient digits, remainder>>
DivLimbs(l, d, rem) ==
  IF Len(l) = 0 THEN <<<< >>, rem>>
  ELSE LET t    == rem * 2^LimbBits + l[1]
           rest == DivLimbs(Tail(l), d, t % d)
       IN <<BitsOf(t \div d, LimbBits) \o rest[1], rest[2]>>

\* JavaScript  f / d  for a binary64 f and an integer 0 < d < 2^15
FDivInt(f, d) ==
  IF Len(f.m) = 0 THEN FZero
  ELSE LET extra == 20   \* quotient digits past the dividend's last digit
           qr == DivLimbs(Limbs(f.m \o Zeros(extra)), d, 0)
       IN RoundBits(qr[1], f.e - extra, qr[2] # 0)

\* integer part of a binary64 0 <= f < 2^30
FFloor(f) ==
  IF Len(f.m) = 0 THEN 0
  ELSE IF f.e >= 0 THEN BitsInt(f.m) * 2^(f.e)
  ELSE IF Precision + f.e <= 0 THEN 0
  ELSE BitsInt(SubSeq(f.m, 1, Precision + f.e))

\* JavaScript  t > f  for an integer t and a binary64 f >= 0
IntGreater(t, f) == t > FFloor(f)

\* the binary64 with significand hi * 2^27 + lo and last-digit exponent e
Binary64(hi, lo, e) == [m |-> BitsOf(hi, 26) \o BitsOf(lo, 27), e |-> e]

(***************************************************************************)
(* Draws standing for Math.random().                                       *)
(***************************************************************************)
\* values of Math.random(), in thousandths, where it is compared with a
\* probability
RandomDraws == {0, 60, 250, 999}

\* pairs of Math.random() values (thousandths) of one random-walk step
WalkDraws == {<<0, 500>>, <<999, 0>>}

\* 0.7 + Math.random() * 0.6  for Math.random() = 0
FactorLow == FDivInt(FromInt(7), 10)
\* 0.7 + Math.random() * 0.6  for Math.random() = 335722881313074 / 2^52
FactorPow2 == Binary64(49977801, 35238255, -53)

\* what initializeSimulation draws for one person: position and velocity
\* (pixels * Unit), age group, recovery factor, incubation period
AgentDraws ==
  { [x |-> 6 * Unit, y |-> 250 * Unit, vx |-> -Unit, vy |-> Unit \div 2,
     ageGroup |-> "adult", factor |-> FactorLow, incubationPeriod |-> 1000],
    [x |-> 9 * Unit, y |-> 250 * Unit, vx |-> Unit \div 2, vy |-> 0,
     ageGroup |-> "senior", factor |-> FactorPow2, incubationPeriod |-> 3000] }

(***************************************************************************)
(* Configuration values explored (React state set through the controls).  *)
(***************************************************************************)
PopulationSizes == {1, 2}
InitialInfectedCounts == {1, 2}
\* infectionRate, in tenths
InfectionRates == {0, 3}
RecoveryTimes == {2000, 11000}
QuarantineDelays == {0, 500}
\* mobilityRate, in tenths
MobilityRates == {0, 10}
\* speed, in halves
Speeds == {6}

VARIABLES
  isRunning, speed, populationSize, infectionRate, recoveryTime,
  mobilityRate, initialInfected, quarantineDelay, maskEnabled,
  stats,     \* the React state written by setStats
  sim,       \* simulationRef.current
  closure    \* the state values seen by the animation callback in flight

vars == <<isRunning, speed, populationSize, infectionRate, recoveryTime,
          mobilityRate, initialInfected, quarantineDelay, maskEnabled,
          stats, sim, closure>>

config == <<speed, populationSize, infectionRate, recoveryTime,
            mobilityRate, initialInfected, quarantineDelay, maskEnabled>>

(***************************************************************************)
(* Arithmetic helpers.                                                     *)
(***************************************************************************)
\* a / b rounded to the nearest integer (b > 0)
RoundDiv(a, b) == (2 * a + b) \div (2 * b)

Max(a, b) == IF a > b THEN a ELSE b
Min(a, b) == IF a < b THEN a ELSE b

RECURSIVE SqrtSearch(_, _, _)
\* the largest r in lo..hi with r * r <= n, by bisection
SqrtSearch(n, lo, hi) ==
  IF lo >= hi THEN lo
  ELSE CHOOSE r \in {IF mid * mid <= n THEN SqrtSearch(n, mid, hi)
                                       ELSE SqrtSearch(n, lo, mid - 1) :
                       mid \in {(lo + hi + 1) \div 2}} : TRUE

\* Math.sqrt on a non-negative fixed-point square, rounded down
Sqrt(n) == SqrtSearch(n, 0, 46340)

RECURSIVE SumSeq(_, _)
SumSeq(f, n) == IF n = 0 THEN 0 ELSE f[n] + SumSeq(f, n - 1)

(***************************************************************************)
(* initializeSimulation                                                    *)
(***************************************************************************)
\* NewPerson with the initial cases counted one too many (i <= nInfected)
NewPersonOneMore(i, d, nInfected, recTime) ==
  [id |-> i,
   x |-> d.x, y |-> d.y, vx |-> d.vx, vy |-> d.vy,
   status |-> IF i <= nInfected THEN "infected" ELSE "healthy",
   infectedTime |-> IF i <= nInfected THEN 0 ELSE Null,
   ageGroup |-> d.ageGroup,
   exposedTime |-> Null,
   incubationPeriod |-> d.incubationPeriod,
   asymptomatic |-> FALSE,
   personalRecovery |-> FMulInt(recTime, d.factor),
   oldRecoveryTime |-> recTime,
   immunityEndTime |-> Null,
   infectedBy |-> Null,
   infectionsSpread |-> 0]

NewPerson(i, d, nInfected, recTime) ==
  [id |-> i,
   x |-> d.x, y |-> d.y, vx |-> d.vx, vy |-> d.vy,
   status |-> IF i < nInfected THEN "infected" ELSE "healthy",
   infectedTime |-> IF i < nInfected THEN 0 ELSE Null,
   ageGroup |-> d.ageGroup,
   exposedTime |-> Null,
   incubationPeriod |-> d.incubationPeriod,
   asymptomatic |-> FALSE,
   personalRecovery |-> FMulInt(recTime, d.factor),
   oldRecoveryTime |-> recTime,
   immunityEndTime |-> Null,
   infectedBy |-> Null,
   infectionsSpread |-> 0]

\* draws[i] is what Math.random() gave for person i - 1
initializeSimulation(n, nInfected, recTime, draws) ==
  [people |-> [i \in 1..n |-> NewPerson(i - 1, draws[i], nInfected, recTime)],
   time |-> 0,
   infections |-> << >>]

(***************************************************************************)
(* updateSimulationParameters                                              *)
(***************************************************************************)
\* RescalePerson that also brings the person to rest
RescalePersonStopped(person, recTime) ==
  LET multiplier ==
        IF person.oldRecoveryTime # 0 /\ person.oldRecoveryTime > 0
        THEN FDivInt(person.personalRecovery, person.oldRecoveryTime)
        ELSE FDivInt(person.personalRecovery, fallbackRecoveryTime)
  IN [person EXCEPT !.personalRecovery = FMulInt(recTime, multiplier),
                    !.oldRecoveryTime = recTime,
                    !.vx = 0, !.vy = 0]

RescalePerson(person, recTime) ==
  LET multiplier ==
        IF person.oldRecoveryTime # 0 /\ person.oldRecoveryTime > 0
        THEN FDivInt(person.personalRecovery, person.oldRecoveryTime)
        ELSE FDivInt(person.personalRecovery, fallbackRecoveryTime)
  IN [person EXCEPT !.personalRecovery = FMulInt(recTime, multiplier),
                    !.oldRecoveryTime = recTime]

updateSimulationParameters(s, recTime) ==
  IF Len(s.people) = 0 THEN s
  ELSE [s EXCEPT !.people = [i \in 1..Len(s.people) |->
                               RescalePerson(s.people[i], recTime)]]

(***************************************************************************)
(* attemptInfection                                                        *)
(***************************************************************************)
\* InfectionDrawSucceeds with <= for <
InfectionDrawSucceedsInclusive(r, source, cl) ==
  LET maskHalves  == IF cl.maskEnabled THEN 1 ELSE 2
      asympHalves == IF source.status = "asymptomatic" THEN 1 ELSE 2
  IN 4 * r <= cl.infectionRate * 100 * maskHalves * asympHalves

\* Math.random() < infectionRate * maskFactor * asympFactor, for the draw r
InfectionDrawSucceeds(r, source, cl) ==
  LET maskHalves  == IF cl.maskEnabled THEN 1 ELSE 2
      asympHalves == IF source.status = "asymptomatic" THEN 1 ELSE 2
  IN 4 * r < cl.infectionRate * 100 * maskHalves * asympHalves

\* the fields attemptInfection writes into the infected person
Infect(target, source, time) ==
  [target EXCEPT !.status = "infected",
                 !.exposedTime = time,
                 !.infectedTime = time,
                 !.infectedBy = source.id]

\* attemptInfection without the push onto the log
attemptInfectionUnlogged(s, i, j, time, cl, r) ==
  LET person1 == s.people[i]
      person2 == s.people[j]
      infectious == person1.status = "infected" \/ person1.status = "asymptomatic"
  IN IF person1.status = "quarantined" \/ person2.status = "quarantined" THEN s
     ELSE IF infectious /\ person2.status = "healthy"
                        /\ InfectionDrawSucceeds(r, person1, cl)
     THEN [people |-> [s.people EXCEPT
                         ![j] = Infect(person2, person1, time),
                         ![i] = [person1 EXCEPT
                                   !.infectionsSpread = person1.infectionsSpread + 1]],
           infections |-> s.infections]
     ELSE s

\* attemptInfection that takes the quarantined for infectious, as the
\* recovery check does, and has no early return for them
attemptInfectionFromQuarantine(s, i, j, time, cl, r) ==
  LET person1 == s.people[i]
      person2 == s.people[j]
      infectious == person1.status \in {"infected", "quarantined", "asymptomatic"}
  IN IF infectious /\ person2.status = "healthy"
                   /\ InfectionDrawSucceeds(r, person1, cl)
     THEN [people |-> [s.people EXCEPT
                         ![j] = Infect(person2, person1, time),
                         ![i] = [person1 EXCEPT
                                   !.infectionsSpread = person1.infectionsSpread + 1]],
           infections |-> Append(s.infections,
                                 [from |-> person1.id, to |-> person2.id,
                                  time |-> time])]
     ELSE s

\* s = [people, infections]; i, j index the source and the target;
\* r is the draw used if the attempt gets as far as drawing
attemptInfection(s, i, j, time, cl, r) ==
  LET person1 == s.people[i]
      person2 == s.people[j]
      infectious == person1.status = "infected" \/ person1.status = "asymptomatic"
  IN IF person1.status = "quarantined" \/ person2.status = "quarantined" THEN s
     ELSE IF infectious /\ person2.status = "healthy"
                        /\ InfectionDrawSucceeds(r, person1, cl)
     THEN [people |-> [s.people EXCEPT
                         ![j] = Infect(person2, person1, time),
                         ![i] = [person1 EXCEPT
                                   !.infectionsSpread = person1.infectionsSpread + 1]],
           infections |-> Append(s.infections,
                                 [from |-> person1.id, to |-> person2.id,
                                  time |-> time])]
     ELSE s

(***************************************************************************)
(* determineOutcome                                                        *)
(***************************************************************************)
\* base mortality by age group, in thousandths
baseMortality(ageGroup) ==
  IF ageGroup = "child" THEN 200 ELSE IF ageGroup = "adult" THEN 50 ELSE 200

\* determineOutcome with a status for the dead that the counters do not know
determineOutcomeMisspelt(person, overCapacity, time, cl, r) ==
  LET mortalityDoubled == baseMortality(person.ageGroup)
                            * (IF overCapacity THEN 3 ELSE 2)
  IN IF 2 * r < mortalityDoubled
     THEN [person EXCEPT !.status = "deceased", !.vx = 0, !.vy = 0]
     ELSE [person EXCEPT !.status = "recovered",
                         !.immunityEndTime = time + cl.immunityDuration]

\* determineOutcome with survivors made susceptible again
determineOutcomeSusceptible(person, overCapacity, time, cl, r) ==
  LET mortalityDoubled == baseMortality(person.ageGroup)
                            * (IF overCapacity THEN 3 ELSE 2)
  IN IF 2 * r < mortalityDoubled
     THEN [person EXCEPT !.status = "dead", !.vx = 0, !.vy = 0]
     ELSE [person EXCEPT !.status = "healthy",
                         !.immunityEndTime = time + cl.immunityDuration]

\* r is the Math.random() draw, in thousandths
determineOutcome(person, overCapacity, time, cl, r) ==
  LET mortalityDoubled == baseMortality(person.ageGroup)
                            * (IF overCapacity THEN 3 ELSE 2)
  IN IF 2 * r < mortalityDoubled
     THEN [person EXCEPT !.status = "dead", !.vx = 0, !.vy = 0]
     ELSE [person EXCEPT !.status = "recovered",
                         !.immunityEndTime = time + cl.immunityDuration]

(***************************************************************************)
(* updateSimulation: the pass over each person                             *)
(***************************************************************************)
\* velocity after one random-walk step with the draws d, speed limited
RandomWalk(person, d, cl) ==
  LET m   == cl.mobilityRate
      vx1 == person.vx + RoundDiv((d[1] - 500) * m * Unit, 20000)
      vy1 == person.vy + RoundDiv((d[2] - 500) * m * Unit, 20000)
      \* maxSpeed and currentSpeed, in hundredths of a fixed-point step
      maxSpeed     == Unit * (20 + 18 * m)
      currentSpeed == Sqrt(10000 * (vx1 * vx1 + vy1 * vy1))
  IN IF currentSpeed > maxSpeed
     THEN [person EXCEPT !.vx = RoundDiv(vx1 * maxSpeed, currentSpeed),
                         !.vy = RoundDiv(vy1 * maxSpeed, currentSpeed)]
     ELSE [person EXCEPT !.vx = vx1, !.vy = vy1]

\* the persons the movement step can produce
Movement(person, cl) ==
  IF person.status # "quarantined" /\ cl.mobilityRate > 0
  THEN {person : r \in {r \in RandomDraws : ~(r < 100 * cl.mobilityRate)}}
       \cup {RandomWalk(person, d, cl) :
               d \in {d \in WalkDraws :
                        \E r \in RandomDraws : r < 100 * cl.mobilityRate}}
  ELSE {person}

PositionUpdate(person, cl) ==
  IF person.status # "quarantined"
  THEN [person EXCEPT !.x = person.x + RoundDiv(person.vx * cl.mobilityRate, 10),
                      !.y = person.y + RoundDiv(person.vy * cl.mobilityRate, 10)]
  ELSE person

BoundaryCollision(person) ==
  LET w  == canvasWidth * Unit
      h  == canvasHeight * Unit
      lo == margin * Unit
      hitX == person.x < lo \/ person.x > w - lo
      hitY == person.y < lo \/ person.y > h - lo
  IN [person EXCEPT
        !.vx = IF hitX THEN -person.vx ELSE person.vx,
        !.x  = IF hitX THEN Max(lo, Min(w - lo, person.x)) ELSE person.x,
        !.vy = IF hitY THEN -person.vy ELSE person.vy,
        !.y  = IF hitY THEN Max(lo, Min(h - lo, person.y)) ELSE person.y]

\* exposed -> infected or asymptomatic once the incubation period is over
Incubation(person, time) ==
  IF person.status = "exposed"
     /\ time - person.exposedTime > person.incubationPeriod
  THEN {[person EXCEPT !.asymptomatic = (r < 400),
                       !.status = IF r < 400 THEN "asymptomatic" ELSE "infected",
                       !.infectedTime = time] : r \in RandomDraws}
  ELSE {person}

\* Quarantine without the two assignments that stop the person
QuarantineStillMoving(person, time, cl) ==
  IF person.status = "infected"
     /\ time - person.infectedTime > cl.quarantineDelay
  THEN [person EXCEPT !.status = "quarantined"]
  ELSE person

\* infected -> quarantined after the delay
Quarantine(person, time, cl) ==
  IF person.status = "infected"
     /\ time - person.infectedTime > cl.quarantineDelay
  THEN [person EXCEPT !.status = "quarantined", !.vx = 0, !.vy = 0]
  ELSE person

\* the call  determineOutcome(person)  of the recovery check, for the draw
\* r: the second argument is missing, so overCapacity is undefined (falsy)
OutcomeCall(person, time, cl, r) == determineOutcome(person, FALSE, time, cl, r)

\* recovery check that waits one tick longer
RecoveryCheckLate(person, time, cl) ==
  LET isInfectiousState == person.status \in {"infected", "quarantined", "asymptomatic"}
  IN IF isInfectiousState
        /\ IntGreater(time - (frameMillis * cl.speed) \div 2 - person.infectedTime,
                      person.personalRecovery)
     THEN {OutcomeCall(person, time, cl, r) : r \in RandomDraws}
     ELSE {person}

\* recovery check
RecoveryCheck(person, time, cl) ==
  LET isInfectiousState == person.status \in {"infected", "quarantined", "asymptomatic"}
  IN IF isInfectiousState
        /\ IntGreater(time - person.infectedTime, person.personalRecovery)
     THEN {OutcomeCall(person, time, cl, r) : r \in RandomDraws}
     ELSE {person}

\* UpdatePerson with immunity that wanes: a recovered person is healthy
\* again once the clock has passed immunityEndTime
UpdatePersonWaning(person, time, cl) ==
  IF person.status = "dead" THEN {person}
  ELSE IF person.status = "recovered" /\ time > person.immunityEndTime
  THEN {[person EXCEPT !.status = "healthy"]}
  ELSE UNION { UNION { RecoveryCheck(Quarantine(q, time, cl), time, cl) :
                         q \in Incubation(BoundaryCollision(PositionUpdate(p, cl)), time) } :
               p \in Movement(person, cl) }

\* everything the forEach callback can make of one person
UpdatePerson(person, time, cl) ==
  IF person.status = "dead" THEN {person}
  ELSE UNION { UNION { RecoveryCheck(Quarantine(q, time, cl), time, cl) :
                         q \in Incubation(BoundaryCollision(PositionUpdate(p, cl)), time) } :
               p \in Movement(person, cl) }

RECURSIVE UpdatePeople(_, _, _, _)
\* the sequences of persons the forEach pass can produce, persons 1..n
UpdatePeople(people, n, time, cl) ==
  IF n = 0 THEN {<< >>}
  ELSE {Append(front, last) :
          front \in UpdatePeople(people, n - 1, time, cl),
          last \in UpdatePerson(people[n], time, cl)}

(***************************************************************************)
(* updateSimulation: collisions and infections                             *)
(***************************************************************************)
\* the separation applied to persons i and j (Math.atan2(0, 0) = 0)
Separate(people, i, j) ==
  LET p1 == people[i]
      p2 == people[j]
      dx == p1.x - p2.x
      dy == p1.y - p2.y
      \* distance and overlap, in hundredths of a fixed-point step
      distance == Sqrt(10000 * (dx * dx + dy * dy))
      overlap  == 100 * contactDistance * Unit - distance
      pushX == IF distance = 0 THEN RoundDiv(overlap, 200)
               ELSE RoundDiv(dx * overlap, 2 * distance)
      pushY == IF distance = 0 THEN 0
               ELSE RoundDiv(dy * overlap, 2 * distance)
  IN [people EXCEPT ![i] = [p1 EXCEPT !.x = p1.x + pushX, !.y = p1.y + pushY],
                    ![j] = [p2 EXCEPT !.x = p2.x - pushX, !.y = p2.y - pushY]]

InContact(people, i, j) ==
  LET dx == people[i].x - people[j].x
      dy == people[i].y - people[j].y
      reach == contactDistance * Unit
  IN dx * dx + dy * dy < reach * reach

\* what one iteration of the inner loop can make of s = [people, infections]
Collision(s, i, j, time, cl) ==
  IF InContact(s.people, i, j)
  THEN {attemptInfection(first, j, i, time, cl, r2) :
          first \in {attemptInfection(s1, i, j, time, cl, r1) :
                       s1 \in {[s EXCEPT !.people = Separate(s.people, i, j)]},
                       r1 \in RandomDraws},
          r2 \in RandomDraws}
  ELSE {s}

RECURSIVE CollisionLoop(_, _, _, _, _, _)
\* the two nested loops from the pair (i, j) on, over the set S of outcomes
CollisionLoop(S, i, j, n, time, cl) ==
  IF i > n THEN S
  ELSE IF j > n THEN CollisionLoop(S, i + 1, i + 2, n, time, cl)
  ELSE CollisionLoop(UNION {Collision(s, i, j, time, cl) : s \in S},
                     i, j + 1, n, time, cl)

(***************************************************************************)
(* updateSimulation: statistics                                            *)
(***************************************************************************)
CountStatus(people, st) ==
  Cardinality({i \in 1..Len(people) : people[i].status = st})

\* the seven counters of the statistics loop
StatusCounts(people) ==
  [healthy      |-> CountStatus(people, "healthy"),
   exposed      |-> CountStatus(people, "exposed"),
   asymptomatic |-> CountStatus(people, "asymptomatic"),
   infected     |-> CountStatus(people, "infected"),
   quarantined  |-> CountStatus(people, "quarantined"),
   recovered    |-> CountStatus(people, "recovered"),
   dead         |-> CountStatus(people, "dead")]

\* a JavaScript value that is either the number n or the string that
\* toFixed(2) makes of n / 100
NumberValue(n) == [type |-> "number", hundredths |-> 100 * n]
FixedString(h) == [type |-> "string", hundredths |-> h]

\* (total / count).toFixed(2)
ToFixed2(total, count) == FixedString(RoundDiv(100 * total, count))

\* initialInfections with <= for < in the test for an initial case
initialInfectionsOneMore(people, cl) ==
  {i \in 1..Len(people) :
     /\ people[i].id <= cl.initialInfected
     /\ people[i].infectedTime # Null
     /\ people[i].status \in {"recovered", "dead"}}

\* people.filter(...) of the R0 computation, as a set of indices
initialInfections(people, cl) ==
  {i \in 1..Len(people) :
     /\ people[i].id < cl.initialInfected
     /\ people[i].infectedTime # Null
     /\ people[i].status \in {"recovered", "dead"}}

\* people.filter(...) of the R_t computation
completedInfections(people) ==
  {i \in 1..Len(people) :
     /\ people[i].infectedTime # Null
     /\ people[i].status \in {"recovered", "dead"}}

SpreadOf(people, sel) ==
  SumSeq([i \in 1..Len(people) |->
            IF i \in sel THEN people[i].infectionsSpread ELSE 0], Len(people))

\* ReproductionValue without toFixed(2): the quotient stays a number
ReproductionValueUnformatted(people, sel) ==
  IF Cardinality(sel) > 0
  THEN [type |-> "number",
        hundredths |-> RoundDiv(100 * SpreadOf(people, sel), Cardinality(sel))]
  ELSE NumberValue(0)

ReproductionValue(people, sel) ==
  IF Cardinality(sel) > 0
  THEN ToFixed2(SpreadOf(people, sel), Cardinality(sel))
  ELSE NumberValue(0)

\* the argument of setStats
ComputeStats(people, cl) ==
  LET c == StatusCounts(people)
  IN [healthy   |-> c.healthy,
      infected  |-> c.infected + c.quarantined,
      recovered |-> c.recovered,
      dead      |-> c.dead,
      r0Value   |-> ReproductionValue(people, initialInfections(people, cl)),
      rtValue   |-> ReproductionValue(people, completedInfections(people))]

(***************************************************************************)
(* updateSimulation                                                        *)
(***************************************************************************)
deltaTime(cl) == (frameMillis * cl.speed) \div 2

\* updateSimulation without  sim.time += deltaTime
updateSimulationClockStopped(s, cl) ==
  LET time   == s.time
      n      == Len(s.people)
      moved  == {[people |-> pp, infections |-> s.infections] :
                   pp \in UpdatePeople(s.people, n, time, cl)}
      after  == CollisionLoop(moved, 1, 2, n, time, cl)
  IN {[sim   |-> [people |-> a.people, time |-> time,
                  infections |-> a.infections],
       stats |-> ComputeStats(a.people, cl)] : a \in after}

\* the pairs [sim, stats] one call can produce
updateSimulation(s, cl) ==
  LET time   == s.time + deltaTime(cl)
      n      == Len(s.people)
      moved  == {[people |-> pp, infections |-> s.infections] :
                   pp \in UpdatePeople(s.people, n, time, cl)}
      after  == CollisionLoop(moved, 1, 2, n, time, cl)
  IN {[sim   |-> [people |-> a.people, time |-> time,
                  infections |-> a.infections],
       stats |-> ComputeStats(a.people, cl)] : a \in after}

(***************************************************************************)
(* The component: initial state, effects and handlers.                     *)
(***************************************************************************)
\* the state values a render's callbacks see
Capture(run, spd, rate, mob, nInfected, delay, mask) ==
  [isRunning |-> run, speed |-> spd, infectionRate |-> rate,
   mobilityRate |-> mob, initialInfected |-> nInfected,
   quarantineDelay |-> delay, maskEnabled |-> mask,
   immunityDuration |-> immunityDuration]

\* the ticks that are explored
TickExplored(cl, time) ==
  /\ time < MaxTime
  /\ cl.mobilityRate > 0 => time >= LateFrom

\* the clock values at which moving a control is explored
InputExplored(time) == time < EarlyUntil \/ time >= LateFrom

initialStats ==
  [healthy |-> 0, infected |-> 0, recovered |-> 0, dead |-> 0,
   r0Value |-> NumberValue(0), rtValue |-> NumberValue(0)]

\* the component with its controls set and the simulation initialized
Init ==
  /\ isRunning = FALSE
  /\ speed \in Speeds
  /\ populationSize \in PopulationSizes
  /\ infectionRate \in InfectionRates
  /\ recoveryTime \in RecoveryTimes
  /\ mobilityRate = 0
  /\ initialInfected \in InitialInfectedCounts
  /\ quarantineDelay \in QuarantineDelays
  /\ maskEnabled = FALSE
  /\ stats = initialStats
  /\ \E draws \in [1..populationSize -> AgentDraws] :
       sim = initializeSimulation(populationSize, initialInfected,
                                  recoveryTime, draws)
  /\ closure = Capture(isRunning, speed, infectionRate, mobilityRate,
                       initialInfected, quarantineDelay, maskEnabled)

\* the animation effect, run again because one of its dependencies changed:
\* the new callback sees cl, and is called once at once, on the simulation s
AnimationEffect(s, cl) ==
  /\ closure' = cl
  /\ IF cl.isRunning
     THEN /\ TickExplored(cl, s.time)
          /\ \E o \in updateSimulation(s, cl) : sim' = o.sim /\ stats' = o.stats
     ELSE sim' = s /\ stats' = stats

\* one requestAnimationFrame callback
animate ==
  /\ closure.isRunning
  /\ TickExplored(closure, sim.time)
  /\ \E o \in updateSimulation(sim, closure) : sim' = o.sim /\ stats' = o.stats
  /\ UNCHANGED <<isRunning, config, closure>>

\* the Start/Pause button
toggleRunning ==
  /\ isRunning' = ~isRunning
  /\ UNCHANGED config
  /\ AnimationEffect(sim, Capture(~isRunning, speed, infectionRate, mobilityRate,
                                  initialInfected, quarantineDelay, maskEnabled))

\* the Reset button
resetSimulation ==
  /\ isRunning' = FALSE
  /\ UNCHANGED <<config, stats>>
  /\ \E draws \in [1..populationSize -> AgentDraws] :
       sim' = initializeSimulation(populationSize, initialInfected,
                                   recoveryTime, draws)
  /\ closure' = IF isRunning
                THEN Capture(FALSE, speed, infectionRate, mobilityRate,
                             initialInfected, quarantineDelay, maskEnabled)
                ELSE closure

\* the population slider (disabled while running)
setPopulationSize(n) ==
  /\ ~isRunning
  /\ n # populationSize
  /\ populationSize' = n
  /\ \E draws \in [1..n -> AgentDraws] :
       sim' = initializeSimulation(n, initialInfected, recoveryTime, draws)
  /\ UNCHANGED <<isRunning, speed, infectionRate, recoveryTime, mobilityRate,
                 initialInfected, quarantineDelay, maskEnabled, stats, closure>>

\* the initial-infected slider (disabled while running)
setInitialInfected(k) ==
  /\ ~isRunning
  /\ k # initialInfected
  /\ initialInfected' = k
  /\ \E draws \in [1..populationSize -> AgentDraws] :
       sim' = initializeSimulation(populationSize, k, recoveryTime, draws)
  /\ UNCHANGED <<isRunning, speed, populationSize, infectionRate, recoveryTime,
                 mobilityRate, quarantineDelay, maskEnabled, stats, closure>>

\* the recovery-time slider: parameter effect, then animation effect
setRecoveryTime(r) ==
  /\ r # recoveryTime
  /\ InputExplored(sim.time)
  /\ recoveryTime' = r
  /\ UNCHANGED <<isRunning, speed, populationSize, infectionRate, mobilityRate,
                 initialInfected, quarantineDelay, maskEnabled>>
  /\ AnimationEffect(updateSimulationParameters(sim, r),
                     Capture(isRunning, speed, infectionRate, mobilityRate,
                             initialInfected, quarantineDelay, maskEnabled))

\* the quarantine-delay slider: parameter effect only
setQuarantineDelay(d) ==
  /\ d # quarantineDelay
  /\ InputExplored(sim.time)
  /\ quarantineDelay' = d
  /\ sim' = updateSimulationParameters(sim, recoveryTime)
  /\ UNCHANGED <<isRunning, speed, populationSize, infectionRate, recoveryTime,
                 mobilityRate, initialInfected, maskEnabled, stats, closure>>

\* the mask checkbox: no effect depends on it
setMaskEnabled ==
  /\ InputExplored(sim.time)
  /\ maskEnabled' = ~maskEnabled
  /\ UNCHANGED <<isRunning, speed, populationSize, infectionRate, recoveryTime,
                 mobilityRate, initialInfected, quarantineDelay, stats, sim,
                 closure>>

\* the mobility slider: animation effect
setMobilityRate(m) ==
  /\ m # mobilityRate
  /\ m > 0 => sim.time >= LateFrom
  /\ mobilityRate' = m
  /\ UNCHANGED <<isRunning, speed, populationSize, infectionRate, recoveryTime,
                 initialInfected, quarantineDelay, maskEnabled>>
  /\ AnimationEffect(sim, Capture(isRunning, speed, infectionRate, m,
                                  initialInfected, quarantineDelay, maskEnabled))

\* Runs under a configuration chosen before the start: re-initialization,
\* a changed recovery time, and movement late in the run.
Next ==
  \/ animate
  \/ toggleRunning
  \/ resetSimulation
  \/ \E n \in PopulationSizes : setPopulationSize(n)
  \/ \E k \in InitialInfectedCounts : setInitialInfected(k)
  \/ \E r \in RecoveryTimes : setRecoveryTime(r)
  \/ \E m \in MobilityRates : setMobilityRate(m)

Spec == Init /\ [][Next]_vars

\* Runs of one population in which the controls that re-run the parameter
\* effect, and the mask checkbox, are moved.
InitParams ==
  /\ Init
  /\ populationSize = 2
  /\ initialInfected = 1
  /\ infectionRate = 3

NextParams ==
  \/ animate
  \/ toggleRunning
  \/ \E r \in RecoveryTimes : setRecoveryTime(r)
  \/ \E d \in QuarantineDelays : setQuarantineDelay(d)
  \/ setMaskEnabled

SpecParams == InitParams /\ [][NextParams]_vars

\* Runs to the end of the epidemic: the configuration is chosen before the
\* start and then left alone, and requestAnimationFrame (line 418) brings
\* the next frame for as long as the component is mounted.  Frames are
\* followed while somebody is exposed, infectious or quarantined; the
\* frames after that change the clock and nothing else of a person.
Active(person) ==
  person.status \in {"exposed", "asymptomatic", "infected", "quarantined"}

animateWhileActive ==
  /\ closure.isRunning
  /\ \E i \in 1..Len(sim.people) : Active(sim.people[i])
  /\ \E o \in updateSimulation(sim, closure) : sim' = o.sim /\ stats' = o.stats
  /\ UNCHANGED <<isRunning, config, closure>>

startRunning ==
  /\ ~isRunning
  /\ toggleRunning

NextRun ==
  \/ startRunning
  \/ animateWhileActive

SpecRun == Init /\ [][NextRun]_vars /\ WF_vars(animateWhileActive)

\* Runs of the component with populationSize 0: simulationRef holds
\* people: [], as it does before the first initializeSimulation (line 35).
InitEmpty ==
  /\ isRunning = FALSE
  /\ speed \in Speeds
  /\ populationSize = 0
  /\ infectionRate \in InfectionRates
  /\ recoveryTime \in RecoveryTimes
  /\ mobilityRate = 0
  /\ initialInfected \in InitialInfectedCounts
  /\ quarantineDelay \in QuarantineDelays
  /\ maskEnabled = FALSE
  /\ stats = initialStats
  /\ sim = initializeSimulation(populationSize, initialInfected, recoveryTime, << >>)
  /\ closure = Capture(isRunning, speed, infectionRate, mobilityRate,
                       initialInfected, quarantineDelay, maskEnabled)

NextEmpty ==
  \/ animate
  \/ toggleRunning
  \/ resetSimulation
  \/ \E r \in RecoveryTimes : setRecoveryTime(r)

SpecEmpty == InitEmpty /\ [][NextEmpty]_vars

\* Runs of a population of three under a configuration chosen before the
\* start: the smallest population whose reproduction numbers are not
\* multiples of a hundredth.
InitThree ==
  /\ isRunning = FALSE
  /\ speed \in Speeds
  /\ populationSize = 3
  /\ infectionRate \in InfectionRates
  /\ recoveryTime \in RecoveryTimes
  /\ mobilityRate = 0
  /\ initialInfected \in InitialInfectedCounts
  /\ quarantineDelay \in QuarantineDelays
  /\ maskEnabled = FALSE
  /\ stats = initialStats
  /\ \E draws \in [1..populationSize -> AgentDraws] :
       sim = initializeSimulation(populationSize, initialInfected,
                                  recoveryTime, draws)
  /\ closure = Capture(isRunning, speed, infectionRate, mobilityRate,
                       initialInfected, quarantineDelay, maskEnabled)

NextThree ==
  \/ animate
  \/ toggleRunning

SpecThree == InitThree /\ [][NextThree]_vars

\* Runs of a single person with the quarantine delay at 1500 ms, a value
\* of its slider that lies between the personal recovery times drawn for a
\* base recovery time of 2000 ms.
InitLateQuarantine ==
  /\ isRunning = FALSE
  /\ speed \in Speeds
  /\ populationSize = 1
  /\ infectionRate \in InfectionRates
  /\ recoveryTime \in RecoveryTimes
  /\ mobilityRate = 0
  /\ initialInfected \in InitialInfectedCounts
  /\ quarantineDelay = 1500
  /\ maskEnabled = FALSE
  /\ stats = initialStats
  /\ \E draws \in [1..populationSize -> AgentDraws] :
       sim = initializeSimulation(populationSize, initialInfected,
                                  recoveryTime, draws)
  /\ closure = Capture(isRunning, speed, infectionRate, mobilityRate,
                       initialInfected, quarantineDelay, maskEnabled)

NextLateQuarantine ==
  \/ animate
  \/ toggleRunning
  \/ resetSimulation

SpecLateQuarantine == InitLateQuarantine /\ [][NextLateQuarantine]_vars

\* Long runs of one index case, alone or with a second person, under the
\* shortest recovery time and at rest, started with the quarantine delay at
\* 0, until the clock has passed the end of the index case's immunity; the
\* quarantine-delay slider runs the parameter effect at any later time.
InitLongRun ==
  /\ isRunning = FALSE
  /\ speed \in Speeds
  /\ populationSize \in PopulationSizes
  /\ infectionRate = 3
  /\ recoveryTime = 2000
  /\ mobilityRate = 0
  /\ initialInfected = 1
  /\ quarantineDelay = 0
  /\ maskEnabled = FALSE
  /\ stats = initialStats
  /\ \E draws \in [1..populationSize -> AgentDraws] :
       sim = initializeSimulation(populationSize, initialInfected,
                                  recoveryTime, draws)
  /\ closure = Capture(isRunning, speed, infectionRate, mobilityRate,
                       initialInfected, quarantineDelay, maskEnabled)

\* one requestAnimationFrame callback of a long run
animateLongRun ==
  /\ closure.isRunning
  /\ sim.time < LongTime
  /\ \E o \in updateSimulation(sim, closure) : sim' = o.sim /\ stats' = o.stats
  /\ UNCHANGED <<isRunning, config, closure>>

\* the quarantine-delay slider, moved once the first outcomes are near
setQuarantineDelayLate(d) ==
  /\ sim.time >= LateFrom
  /\ setQuarantineDelay(d)

NextLongRun ==
  \/ animateLongRun
  \/ startRunning
  \/ \E d \in QuarantineDelays : setQuarantineDelayLate(d)

SpecLongRun == InitLongRun /\ [][NextLongRun]_vars

(***************************************************************************)
(* Properties.                                                             *)
(***************************************************************************)
People == 1..Len(sim.people)

\* a step that replaces the simulation (initializeSimulation ran)
Reinitializes ==
  /\ sim'.time = 0
  /\ \/ resetSimulation
     \/ \E n \in PopulationSizes : setPopulationSize(n)
     \/ \E k \in InitialInfectedCounts : setInitialInfected(k)

\* a step in which updateSimulation ran
TickStep == sim'.time > sim.time

\* C1: the seven counters of the statistics loop, taken over the people of
\* any reachable state, add up to populationSize.
C1_PopulationConserved ==
  LET c == StatusCounts(sim.people)
  IN c.healthy + c.exposed + c.asymptomatic + c.infected + c.quarantined
       + c.recovered + c.dead = populationSize

\* ticks have run and the two persons are in different statuses, one dead
C1_Witness ==
  /\ sim.time > 0
  /\ populationSize = 2
  /\ \E i, j \in People : sim.people[i].status = "dead"
                          /\ sim.people[j].status = "quarantined"

\* C2 (as claimed): every record appended to the log in a step is stamped
\* with the clock, its target is then exposed, exposed at that clock and
\* infected by the record's source, and each person's infectionsSpread grew
\* by the number of new records naming it as source (one per success).
C2_SuccessExposesTarget ==
  [][\A k \in (Len(sim.infections) + 1)..Len(sim'.infections) :
       LET rec    == sim'.infections[k]
           target == sim'.people[rec.to + 1]
       IN /\ rec.time = sim'.time
          /\ target.status = "exposed"
          /\ target.exposedTime = rec.time
          /\ target.infectedBy = rec.from
          /\ \A i \in People :
               sim'.people[i].infectionsSpread - sim.people[i].infectionsSpread
                 = Cardinality({n \in (Len(sim.infections) + 1)..Len(sim'.infections) :
                                  sim'.infections[n].from = sim.people[i].id})]_vars

\* C3 (as claimed): a person quarantined or dead when a tick starts is at
\* the same position when it ends.
C3_IsolatedStayInPlace ==
  [][TickStep =>
       \A i \in People :
         sim.people[i].status \in {"quarantined", "dead"} =>
           /\ sim'.people[i].x = sim.people[i].x
           /\ sim'.people[i].y = sim.people[i].y]_vars

\* C4: in every reachable state every quarantined or dead person has
\* velocity (0, 0).
C4_IsolatedAtRest ==
  \A i \in People :
    sim.people[i].status \in {"quarantined", "dead"} =>
      sim.people[i].vx = 0 /\ sim.people[i].vy = 0

\* a tick with movement has run over a dead and a quarantined person
C4_Witness ==
  /\ closure.mobilityRate > 0
  /\ sim.time > LateFrom
  /\ \E i, j \in People : sim.people[i].status = "dead"
                          /\ sim.people[j].status = "quarantined"

\* C5: the infectionsSpread values add up to the length of the log in every
\* reachable state, and no step that keeps the simulation lowers one.
C5_SpreadMatchesLog ==
  /\ [](SumSeq([i \in People |-> sim.people[i].infectionsSpread],
               Len(sim.people)) = Len(sim.infections))
  /\ [][\/ \A i \in People :
               /\ i <= Len(sim'.people)
               /\ sim'.people[i].infectionsSpread >= sim.people[i].infectionsSpread
          \/ Reinitializes]_vars

\* a transmission has been logged and later ticks have run
C5_Witness ==
  /\ Len(sim.infections) = 1
  /\ sim.time > sim.infections[1].time

\* C6: in a step that keeps the simulation, a person who is not healthy
\* is not healthy afterwards.
C6_NeverHealthyAgain ==
  [][\/ \A i \in People :
            /\ i <= Len(sim'.people)
            /\ sim.people[i].status # "healthy" => sim'.people[i].status # "healthy"
       \/ Reinitializes]_vars

\* a person infected by another has recovered
C6_Witness ==
  \E i \in People : /\ sim.people[i].status = "recovered"
                    /\ sim.people[i].infectedBy # Null

C8_NoInfectionAtRateZero ==
  infectionRate = 0 =>
    /\ Len(sim.infections) = 0
    /\ CountStatus(sim.people, "healthy") = Max(0, populationSize - initialInfected)

\* at rate 0 a contact has pushed an infectious person out of the margin
\* while the other person is still healthy
C8_Witness ==
  /\ infectionRate = 0
  /\ \E i, j \in People : /\ sim.people[i].status = "infected"
                          /\ sim.people[i].x < margin * Unit
                          /\ sim.people[j].status = "healthy"

\* C9 (as claimed): a run of the parameter effect with recoveryTime
\* unchanged (the quarantine-delay slider moved) leaves every
\* personalRecovery as it was.
C9_RescaleIdempotent ==
  [][(quarantineDelay' # quarantineDelay /\ recoveryTime' = recoveryTime) =>
       \A i \in People :
         sim'.people[i].personalRecovery = sim.people[i].personalRecovery]_vars

\* what initializeSimulation leaves behind
FreshlyInitialized ==
  /\ Len(sim.people) = populationSize
  /\ sim.time = 0
  /\ sim.infections = << >>
  /\ \A i \in People :
       LET person == sim.people[i] IN
       /\ person.id = i - 1
       /\ person.infectionsSpread = 0
       /\ person.infectedBy = Null
       /\ person.exposedTime = Null
       /\ person.immunityEndTime = Null
       /\ IF person.id < initialInfected
          THEN person.status = "infected" /\ person.infectedTime = 0
          ELSE person.status = "healthy" /\ person.infectedTime = Null

\* C10: the initial state and the state after every step that runs
\* initializeSimulation are freshly initialized.
C10_InitializeResets ==
  /\ FreshlyInitialized
  /\ [][FreshlyInitialized' \/ ~Reinitializes]_vars

\* re-initialized after a run: the statistics of the run are still shown
C10_Witness ==
  /\ FreshlyInitialized
  /\ populationSize = 2 /\ initialInfected = 1
  /\ stats.dead + stats.recovered > 0

\* C11 (as claimed): every tick applies the quarantine delay that is set
\* when it runs: a person who starts the tick infected, and has by the new
\* clock been infected for longer than quarantineDelay, does not end the
\* tick infected.
C11_TicksUseCurrentDelay ==
  [][TickStep =>
       \A i \in People :
         (/\ sim.people[i].status = "infected"
          /\ sim'.time - sim.people[i].infectedTime > quarantineDelay')
           => sim'.people[i].status # "infected"]_vars

\* a step in which updateSimulationParameters ran and no tick did: the
\* quarantine-delay slider moved, or the recovery-time slider moved while
\* the simulation was paused
ParameterEffectOnly ==
  \/ quarantineDelay' # quarantineDelay
  \/ recoveryTime' # recoveryTime /\ ~isRunning

\* C12: updateSimulationParameters leaves the clock, the log, the number of
\* persons and every person's status, position and velocity as they were.
C12_UpdateKeepsFrame ==
  [][ParameterEffectOnly =>
       /\ sim'.time = sim.time
       /\ sim'.infections = sim.infections
       /\ Len(sim'.people) = Len(sim.people)
       /\ \A i \in People :
            /\ sim'.people[i].status = sim.people[i].status
            /\ sim'.people[i].x = sim.people[i].x
            /\ sim'.people[i].y = sim.people[i].y
            /\ sim'.people[i].vx = sim.people[i].vx
            /\ sim'.people[i].vy = sim.people[i].vy]_vars

\* the delay slider has been moved during a run (the animation callback
\* still holds the old delay) in which a transmission was logged and an
\* infected person still has a velocity
C12_Witness ==
  /\ quarantineDelay # closure.quarantineDelay
  /\ sim.time > 0
  /\ Len(sim.infections) > 0
  /\ \E i \in People : /\ sim.people[i].status = "infected"
                       /\ sim.people[i].vx # 0
                       /\ sim.people[i].oldRecoveryTime = recoveryTime

PersonIndices ==
  1..(CHOOSE n \in PopulationSizes : \A m \in PopulationSizes : m <= n)

Resolved(person) == person.status \in {"recovered", "dead"}

NobodyActive == \A i \in People : ~Active(sim.people[i])

\* C13: in a run that has been started, a person who is exposed, infectious
\* or quarantined is eventually recovered or dead, and eventually nobody is
\* exposed, infectious or quarantined any more, for good.
C13_EpisodesEnd ==
  /\ \A i \in PersonIndices :
       (isRunning /\ i <= Len(sim.people) /\ Active(sim.people[i]))
         ~> (i <= Len(sim.people) /\ Resolved(sim.people[i]))
  /\ isRunning ~> NobodyActive
  /\ [][isRunning /\ NobodyActive => NobodyActive']_vars

\* the run is over: a person infected by another and then quarantined has
\* recovered or died after more than the longest base recovery time, and
\* nobody is active
C13_Witness ==
  /\ isRunning
  /\ \A i \in People : ~Active(sim.people[i])
  /\ \E i \in People : /\ Resolved(sim.people[i])
                       /\ sim.people[i].infectedBy # Null
                       /\ sim.time - sim.people[i].infectedTime > 8000

Concluded == {i \in People : Resolved(sim.people[i])}
ConcludedIndexCases == {i \in Concluded : sim.people[i].id < initialInfected}

\* the infectionsSpread of the persons in sel, added up
RECURSIVE TotalSpread(_)
TotalSpread(sel) ==
  IF sel = {} THEN 0
  ELSE LET i == CHOOSE k \in sel : TRUE
       IN sim.people[i].infectionsSpread + TotalSpread(sel \ {i})

\* v is exactly the mean of infectionsSpread over sel
IsMean(v, sel) == v.hundredths * Cardinality(sel) = 100 * TotalSpread(sel)

\* v is the mean of infectionsSpread over sel to the nearest hundredth,
\* as a string
IsRoundedMean(v, sel) ==
  LET off == 100 * TotalSpread(sel) - v.hundredths * Cardinality(sel)
  IN /\ v.type = "string"
     /\ -Cardinality(sel) <= 2 * off
     /\ 2 * off <= Cardinality(sel)

\* a state whose statistics come from a tick on the people it holds
AfterTick == isRunning /\ closure.isRunning /\ sim.time > 0

\* C15 (as claimed): after a tick, r0Value is the mean of infectionsSpread
\* over the initial cases that are recovered or dead, and rtValue the mean
\* over everyone recovered or dead, whenever the set is not empty.
C15_ReproductionIsMean ==
  AfterTick =>
    /\ ConcludedIndexCases # {} => IsMean(stats.r0Value, ConcludedIndexCases)
    /\ Concluded # {} => IsMean(stats.rtValue, Concluded)

\* C15 (amended): ... is that mean rounded to two decimal places.
C15_ReproductionIsRoundedMean ==
  AfterTick =>
    /\ ConcludedIndexCases # {} =>
         IsRoundedMean(stats.r0Value, ConcludedIndexCases)
    /\ Concluded # {} => IsRoundedMean(stats.rtValue, Concluded)

\* three persons are recovered or dead after two transmissions: R_t is
\* 2 / 3, shown as "0.67", and R0 differs from it
C15_Witness ==
  /\ AfterTick
  /\ Cardinality(Concluded) = 3
  /\ stats.rtValue = FixedString(67)
  /\ stats.r0Value # stats.rtValue

\* the edges of the state machine
Edges ==
  {<<"healthy", "exposed">>,
   <<"exposed", "infected">>, <<"exposed", "asymptomatic">>,
   <<"infected", "quarantined">>,
   <<"infected", "recovered">>, <<"infected", "dead">>,
   <<"asymptomatic", "recovered">>, <<"asymptomatic", "dead">>,
   <<"quarantined", "recovered">>, <<"quarantined", "dead">>}

\* C16 (as claimed): in a tick a person's status stays or follows one edge,
\* and a person who goes from infected to recovered in the tick has not
\* been quarantined on the way: the velocity, which entering quarantine
\* sets to zero and nothing else changes at mobilityRate 0 away from the
\* walls and from other persons, is what it was.
C16_OneTransitionPerTick ==
  [][TickStep =>
       \A i \in People :
         LET before == sim.people[i]
             after  == sim'.people[i]
         IN /\ \/ after.status = before.status
               \/ <<before.status, after.status>> \in Edges
            /\ (/\ before.status = "infected"
                /\ after.status = "recovered"
                /\ Len(sim.people) = 1
                /\ closure'.mobilityRate = 0)
                 => after.vx = before.vx /\ after.vy = before.vy]_vars

\* C17 (as claimed): a person infected by another is exposed, and has
\* spread nothing and is the source of no record of the log, for as long
\* as the clock is within the incubation period of the infection.
C17_ExposedWhileIncubating ==
  \A i \in People :
    LET person == sim.people[i] IN
    (/\ person.infectedBy # Null
     /\ sim.time - person.exposedTime <= person.incubationPeriod)
      => /\ person.status = "exposed"
         /\ person.infectionsSpread = 0
         /\ \A k \in 1..Len(sim.infections) : sim.infections[k].from # person.id

\* C18: the log only grows, by records whose source is infected or
\* asymptomatic when the tick ends (the pass that quarantines and resolves
\* runs before the attempts of a tick) and whose target was healthy when
\* the tick began and is another person; and an infectedBy that has been
\* set is never set again.
C18_SourceInfectiousTargetHealthy ==
  [][/\ Len(sim'.infections) >= Len(sim.infections)
     /\ SubSeq(sim'.infections, 1, Len(sim.infections)) = sim.infections
     /\ \A k \in (Len(sim.infections) + 1)..Len(sim'.infections) :
          LET rec == sim'.infections[k] IN
          /\ rec.from # rec.to
          /\ sim'.people[rec.from + 1].status \in {"infected", "asymptomatic"}
          /\ sim.people[rec.to + 1].status = "healthy"
          /\ sim'.people[rec.to + 1].infectedBy = rec.from
          /\ \A n \in 1..Len(sim'.infections) :
               sim'.infections[n].to = rec.to => n = k
     /\ \A i \in People :
          sim.people[i].infectedBy # Null =>
            sim'.people[i].infectedBy = sim.people[i].infectedBy]_vars

\* two records of one tick: the target of the first is the source of the
\* second
C18_Witness ==
  /\ Len(sim.infections) = 2
  /\ sim.infections[2].from = sim.infections[1].to
  /\ sim.infections[2].time = sim.infections[1].time
  /\ \E i \in People : sim.people[i].status = "quarantined"

\* the recovery check of the next tick will resolve the person
DueNextTick(person) ==
  /\ closure.isRunning
  /\ person.status \in {"infected", "quarantined", "asymptomatic"}
  /\ IntGreater(sim.time + deltaTime(closure) - person.infectedTime,
                person.personalRecovery)

\* more active cases (infected or quarantined) than the healthcare capacity
OverCapacity ==
  CountStatus(sim.people, "infected") + CountStatus(sim.people, "quarantined")
    > healthcareCapacity

\* C19 (as claimed): for a person the next tick resolves, and for every
\* draw, the person dies exactly if the draw is below the base mortality
\* of the age group, times 1.5 when the active cases exceed the capacity.
C19_OverCapacityRaisesMortality ==
  \A i \in People : \A r \in RandomDraws :
    DueNextTick(sim.people[i]) =>
      ((OutcomeCall(sim.people[i], sim.time + deltaTime(closure),
                    closure, r).status = "dead")
         <=> (2 * r < baseMortality(sim.people[i].ageGroup)
                        * (IF OverCapacity THEN 3 ELSE 2)))

\* C20 (as claimed): a change of the recovery time leaves every field of
\* every dead person as it was.
C20_DeadUntouchedByRescaling ==
  [][recoveryTime' # recoveryTime =>
       \A i \in People :
         sim.people[i].status = "dead" =>
           /\ i <= Len(sim'.people)
           /\ sim'.people[i] = sim.people[i]]_vars

\* the real number k * f, unrounded: binary digits and last-digit exponent
ExactProduct(k, f) ==
  IF Len(f.m) = 0 THEN FZero
  ELSE [m |-> Strip(MulLimbs(k, Limbs(f.m), 0)), e |-> f.e]

\* two unrounded values are the same real number
SameReal(p, q) ==
  IF p.e >= q.e THEN Strip(p.m \o Zeros(p.e - q.e)) = Strip(q.m)
  ELSE Strip(p.m) = Strip(q.m \o Zeros(q.e - p.e))

C22_OutcomesAbsorbing ==
  [][\A i \in People :
       sim.people[i].status \in {"recovered", "dead"} =>
         /\ i <= Len(sim'.people)
         /\ sim'.people[i].status = sim.people[i].status]_vars

\* a recovered person's immunity ended at least two ticks ago
C22_Witness ==
  \E i \in People :
    /\ sim.people[i].status = "recovered"
    /\ sim.time > sim.people[i].immunityEndTime + deltaTime(closure)

Infectious(person) ==
  person.status \in {"infected", "quarantined", "asymptomatic"}

\* the person's time in the infectious statuses exceeds personalRecovery
Overdue(person, time) ==
  IntGreater(time - person.infectedTime, person.personalRecovery)

\* C23: over every tick, a person who is already recovered or dead is not
\* resolved again (status and immunityEndTime stay), an infectious person is
\* resolved exactly if the tick finds it overdue, and after the tick no
\* infectious person is overdue.
C23_OutcomeOnceWhenOverdue ==
  [][TickStep =>
       \A i \in People :
         LET before == sim.people[i]
             after  == sim'.people[i]
         IN /\ Resolved(before) =>
                 /\ after.status = before.status
                 /\ after.immunityEndTime = before.immunityEndTime
            /\ Infectious(before) =>
                 (Resolved(after) <=> Overdue(after, sim'.time))
            /\ Infectious(after) => ~Overdue(after, sim'.time)]_vars

\* a person has been resolved by the tick just run while another is still
\* infectious
C23_Witness ==
  \E i, j \in People :
    /\ sim.people[i].status = "recovered"
    /\ sim.people[i].immunityEndTime = sim.time + immunityDuration
    /\ Infectious(sim.people[j])

\* C24 (as claimed): after every tick every person is inside the margin.
C24_InsideMarginAfterTick ==
  [][TickStep =>
       \A i \in 1..Len(sim'.people) :
         /\ sim'.people[i].x >= margin * Unit
         /\ sim'.people[i].x <= (canvasWidth - margin) * Unit
         /\ sim'.people[i].y >= margin * Unit
         /\ sim'.people[i].y <= (canvasHeight - margin) * Unit]_vars

\* the initial cases, and all of them being recovered or dead
IndexCases == {i \in People : sim.people[i].id < initialInfected}
IndexCasesConcluded == \A i \in IndexCases : Resolved(sim.people[i])

\* C25: a tick that starts with every initial case recovered or dead
\* reports the R0 that was reported before it.
C25_ReproductionZeroSettles ==
  [][(TickStep /\ IndexCasesConcluded) => stats'.r0Value = stats.r0Value]_vars

\* every initial case has recovered, there were transmissions, and a person
\* who is not an initial case has recovered in a later tick than all of them
C25_Witness ==
  /\ AfterTick
  /\ IndexCasesConcluded
  /\ stats.r0Value.hundredths > 0
  /\ \E j \in People \ IndexCases :
       /\ sim.people[j].status = "recovered"
       /\ \A i \in IndexCases :
            /\ sim.people[i].status = "recovered"
            /\ sim.people[i].immunityEndTime < sim.people[j].immunityEndTime

====
